---- MODULE Spec2Model ----
(***************************************************************************)
(* A model of the retrieval-augmented question-answering pipeline:         *)
(*   1_buildKnowledge.py  build_knowledge_base  (the chunker)              *)
(*   2_buildSearch.py     build_search_engine   (dense + sparse indices)   *)
(*   core.py              initialize, retrieve_context                     *)
(*                                                                         *)
(* A document is modelled by what the chunker reads of it: whether its     *)
(* line parses, the length in characters of its concatenated text and its  *)
(* number of whitespace-delimited words.  A chunk's text words[lo:hi] is   *)
(* modelled by the triple (line, lo, hi).                                  *)
(***************************************************************************)
EXTENDS Integers, Sequences, FiniteSets, TLC

\* ---- program constants (1_buildKnowledge.py) ----
chunk_size == 250
overlap == 50
MinDocChars == 500
MinChunkWords == 80

\* ---- bounds of the model ----
MaxWords == 500
MaxDocs == 3

None == "None"
NoFile == [exists |-> FALSE, chunks |-> <<>>]
NoFaiss == [exists |-> FALSE, ok |-> FALSE, vecs |-> <<>>]
\* A handle that is None, for the handles that are sequences or records.
NoIndex == [loaded |-> FALSE, vecs |-> <<>>]
NoBm25 == [loaded |-> FALSE, corpus |-> <<>>]
NoPkl == [exists |-> FALSE, ok |-> FALSE, bm25 |-> NoBm25, chunks |-> <<>>, embedder |-> None]
\* llm = None, index = None, bm25 = None, chunks = [], embedder = None
NoGlobals == [llm |-> None, index |-> NoIndex, bm25 |-> NoBm25, chunks |-> <<>>,
              embedder |-> None]
NoQuery == [order |-> <<>>, scores |-> <<>>, denseThrows |-> FALSE, sparseThrows |-> FALSE]
NoCall == [op |-> "none", ready |-> FALSE, top_k |-> 0, query |-> NoQuery,
           outcome |-> "returned", context |-> <<>>]
NoCsv == [exists |-> FALSE, rows |-> <<>>]

VARIABLES
    \* build_knowledge_base
    lines,          \* the records of useme.jsonl, in file order
    pos,            \* 1-based index of the next line the loop reads
    kb_chunks,      \* the local list `chunks`
    total_papers,
    skipped,
    kb_pc,          \* "loop" | "done"
    runs,           \* completed runs of build_knowledge_base over `lines`
    \* files
    chunksJson,     \* index/chunks.json: whether it exists, and its chunk list
    faissFile,      \* index/faiss.index: the vectors, in chunk order
    pklFile,        \* index/search.pkl: (bm25, chunks, model)
    modelFile,      \* whether MODEL_PATH exists
    \* core.py globals
    llm, index, bm25, chunks, embedder,
    \* the last call into core.py and what it gave back
    ret,
    \* batch.py: analyze_scam_batch
    df,             \* the data frame: per row its scam_messages and ai_responses
    batch_idx,      \* the row the loop reads next (0-based)
    outCsv,         \* the output file: whether it exists, and the rows written
    batch_pc        \* "idle" | "loop" | "done" | "crashed"

kbvars == <<lines, pos, kb_chunks, total_papers, skipped, kb_pc, runs>>
files == <<faissFile, pklFile, modelFile>>
globals == <<llm, index, bm25, chunks, embedder>>
batchvars == <<df, batch_idx, outCsv, batch_pc>>
vars == <<lines, pos, kb_chunks, total_papers, skipped, kb_pc, runs, chunksJson,
          faissFile, pklFile, modelFile, llm, index, bm25, chunks, embedder, ret,
          df, batch_idx, outCsv, batch_pc>>

Globals == [llm |-> llm, index |-> index, bm25 |-> bm25, chunks |-> chunks,
            embedder |-> embedder]

GlobalsAre(g) ==
    /\ llm = g.llm /\ index = g.index /\ bm25 = g.bm25
    /\ chunks = g.chunks /\ embedder = g.embedder

SetGlobals(g) ==
    /\ llm' = g.llm /\ index' = g.index /\ bm25' = g.bm25
    /\ chunks' = g.chunks /\ embedder' = g.embedder

\* No batch is running and none has run.
BatchIdle == df = <<>> /\ batch_idx = 0 /\ outCsv = NoCsv /\ batch_pc = "idle"

Min(a, b) == IF a < b THEN a ELSE b

\* ------------------------------------------------------------------------
\* Input records.  kind "json_error": json.loads raises JSONDecodeError;
\* kind "bad_field": the line parses but building the text raises (e.g. a
\* null title); kind "ok": `chars` = len(full_text), `n` = len(words).
\* n words separated by single spaces need at least 2n-1 characters.
MinChars(n) == IF n = 0 THEN 0 ELSE 2 * n - 1

CharLens(n) ==
    IF n = 0 THEN {0}
    ELSE {c \in {MinChars(n), 400, MinDocChars - 1, MinDocChars, 600, 2 * MaxWords} :
            c >= MinChars(n)}

OkRecords(ns) ==
    UNION {{[kind |-> "ok", chars |-> c, n |-> n] : c \in CharLens(n)} : n \in ns}

BadRecords == {[kind |-> "json_error", chars |-> 0, n |-> 0],
               [kind |-> "bad_field", chars |-> 0, n |-> 0]}

\* ------------------------------------------------------------------------
\* mutant: the windows do not overlap but leave a gap
stride_gap == chunk_size + overlap

\* The window loop: for i in range(0, len(words), chunk_size - overlap)
stride == chunk_size - overlap

\* words[i : i + chunk_size] as the slice bounds Python clips them to
WindowEnd(i, n) == Min(i + chunk_size, n)

\* mutant: a window of exactly 80 words is kept
Substantial_geq(i, n) == WindowEnd(i, n) - i >= MinChunkWords

\* len(chunk_text.split()) > 80
Substantial(i, n) == WindowEnd(i, n) - i > MinChunkWords

\* The chunk_id given to a new chunk: len(chunks)
NextChunkId(cs) == Len(cs)

\* mutant: chunk ids count the windows of each document
NewChunk_perDoc(cs, line, i, n) ==
    [chunk_id |-> i \div stride, line |-> line, lo |-> i, hi |-> WindowEnd(i, n)]

NewChunk(cs, line, i, n) ==
    [chunk_id |-> NextChunkId(cs), line |-> line, lo |-> i, hi |-> WindowEnd(i, n)]

RECURSIVE WindowLoop(_, _, _, _)
WindowLoop(cs, line, i, n) ==
    IF i >= n THEN cs
    ELSE WindowLoop(IF Substantial(i, n) THEN Append(cs, NewChunk(cs, line, i, n)) ELSE cs,
                    line, i + stride, n)

\* mutant: the document threshold is taken in words
TooShort_words(rec) == rec.n < MinChunkWords

\* if len(full_text) < 500: skipped += 1; continue
TooShort(rec) == rec.chars < MinDocChars

\* mutant: a record that fails to parse is counted as skipped
ProcessRecord_countMalformed(s, line, rec) ==
    IF rec.kind = "json_error" THEN [s EXCEPT !.skipped = @ + 1]
    ELSE IF rec.kind = "bad_field" THEN [s EXCEPT !.total_papers = @ + 1]
    ELSE IF TooShort(rec)
        THEN [s EXCEPT !.total_papers = @ + 1, !.skipped = @ + 1]
    ELSE [s EXCEPT !.total_papers = @ + 1,
                   !.chunks = WindowLoop(@, line, 0, rec.n)]

\* One iteration of the loop over lines, on the triple of locals.
ProcessRecord(s, line, rec) ==
    IF rec.kind = "json_error" THEN s
    ELSE IF rec.kind = "bad_field" THEN [s EXCEPT !.total_papers = @ + 1]
    ELSE IF TooShort(rec)
        THEN [s EXCEPT !.total_papers = @ + 1, !.skipped = @ + 1]
    ELSE [s EXCEPT !.total_papers = @ + 1,
                   !.chunks = WindowLoop(@, line, 0, rec.n)]

Locals == [chunks |-> kb_chunks, total_papers |-> total_papers, skipped |-> skipped]

\* for line in lines: ... (one iteration)
ProcessLine ==
    /\ kb_pc = "loop"
    /\ pos <= Len(lines)
    /\ LET s == ProcessRecord(Locals, pos, lines[pos]) IN
        /\ kb_chunks' = s.chunks
        /\ total_papers' = s.total_papers
        /\ skipped' = s.skipped
    /\ pos' = pos + 1
    /\ UNCHANGED <<lines, kb_pc, runs, chunksJson, files, globals, ret, batchvars>>

\* json.dump(chunks, f); return True
SaveChunks ==
    /\ kb_pc = "loop"
    /\ pos > Len(lines)
    /\ chunksJson' = [exists |-> TRUE, chunks |-> kb_chunks]
    /\ kb_pc' = "done"
    /\ runs' = runs + 1
    /\ UNCHANGED <<lines, pos, kb_chunks, total_papers, skipped, files, globals, ret, batchvars>>

\* The script is run again over the same input file.
MaxRuns == 2

RunAgain ==
    /\ kb_pc = "done"
    /\ runs < MaxRuns
    /\ kb_chunks' = <<>>
    /\ total_papers' = 0
    /\ skipped' = 0
    /\ pos' = 1
    /\ kb_pc' = "loop"
    /\ UNCHANGED <<lines, runs, chunksJson, files, globals, ret, batchvars>>

\* ------------------------------------------------------------------------
\* Inputs of the chunker specification: every single document of up to
\* MaxWords words, alone and after a one-chunk document, and every corpus
\* of up to MaxDocs records drawn from the boundary cases.
AllRecords == OkRecords(0 .. MaxWords) \cup BadRecords

BoundaryWords == {MinChunkWords, MinChunkWords + 1, chunk_size, 300}

BoundaryRecords ==
    {r \in OkRecords(BoundaryWords) : r.chars \in {MinChars(r.n), 600}} \cup BadRecords

RECURSIVE SeqsUpTo(_, _)
SeqsUpTo(S, k) ==
    IF k = 0 THEN {<<>>}
    ELSE LET shorter == SeqsUpTo(S, k - 1) IN
         shorter \cup {Append(q, x) : q \in shorter, x \in S}

OneChunkDoc == [kind |-> "ok", chars |-> 600, n |-> MinChunkWords + 1]

Corpora ==
    {<<r>> : r \in AllRecords}
        \cup {<<OneChunkDoc, r>> : r \in AllRecords}
        \cup SeqsUpTo(BoundaryRecords, MaxDocs)

InitBuild ==
    /\ lines \in Corpora
    /\ pos = 1
    /\ kb_chunks = <<>>
    /\ total_papers = 0
    /\ skipped = 0
    /\ kb_pc = "loop"
    /\ runs = 0
    /\ chunksJson = NoFile
    /\ faissFile = NoFaiss
    /\ pklFile = NoPkl
    /\ modelFile = FALSE
    /\ GlobalsAre(NoGlobals)
    /\ ret = NoCall
    /\ BatchIdle

NextBuild == ProcessLine \/ SaveChunks \/ RunAgain

SpecBuild == InitBuild /\ [][NextBuild]_vars

\* ------------------------------------------------------------------------
\* build_knowledge_base as one step: the loop over a whole input file.
RECURSIVE RunLoop(_, _, _)
RunLoop(s, corpus, k) ==
    IF k > Len(corpus) THEN s
    ELSE RunLoop(ProcessRecord(s, k, corpus[k]), corpus, k + 1)

RunBuild(corpus) ==
    RunLoop([chunks |-> <<>>, total_papers |-> 0, skipped |-> 0], corpus, 1).chunks

BuildKnowledgeBase(corpus) ==
    /\ chunksJson' = [exists |-> TRUE, chunks |-> RunBuild(corpus)]
    /\ UNCHANGED <<kbvars, files, globals, ret, batchvars>>

\* ------------------------------------------------------------------------
\* 2_buildSearch.py.  The collaborators are black boxes: a chunk's vector and
\* its token list are tagged copies of the chunk's text.
TextOf(c) == <<c.line, c.lo, c.hi>>
Encode(text) == [vec |-> text]
Tokenize(text) == [tokens |-> text]
EmbedModel == "all-MiniLM-L6-v2"

\* texts = [c["text"] for c in chunks]; model.encode(texts); index.add(embeds)
DenseIndexOf(cs) == [k \in 1 .. Len(cs) |-> Encode(TextOf(cs[k]))]
\* BM25Okapi([word_tokenize(t.lower()) for t in texts])
SparseIndexOf(cs) ==
    [loaded |-> TRUE, corpus |-> [k \in 1 .. Len(cs) |-> Tokenize(TextOf(cs[k]))]]

FaissWritten(cs) == [exists |-> TRUE, ok |-> TRUE, vecs |-> DenseIndexOf(cs)]
PklWritten(cs) ==
    [exists |-> TRUE, ok |-> TRUE, bm25 |-> SparseIndexOf(cs), chunks |-> cs,
     embedder |-> EmbedModel]
\* a file opened for writing whose dump did not finish
FaissTorn == [exists |-> TRUE, ok |-> FALSE, vecs |-> <<>>]
PklTorn == [exists |-> TRUE, ok |-> FALSE, bm25 |-> NoBm25, chunks |-> <<>>, embedder |-> None]

\* Where a run of build_search_engine raises: nowhere ("none"), while loading
\* the embedding model or encoding ("encode"), in faiss.write_index
\* ("write_index"), in word_tokenize / BM25Okapi ("bm25"), in pickle.dump
\* ("pickle").
FailPoints == {"none", "encode", "write_index", "bm25", "pickle"}

BuildSearchEngine(fail) ==
    /\ chunksJson.exists
    /\ Len(chunksJson.chunks) > 0
    /\ LET cs == chunksJson.chunks IN
        /\ faissFile' = CASE fail = "encode" -> faissFile
                          [] fail = "write_index" -> FaissTorn
                          [] OTHER -> FaissWritten(cs)
        /\ pklFile' = CASE fail = "none" -> PklWritten(cs)
                        [] fail = "pickle" -> PklTorn
                        [] OTHER -> pklFile
    /\ UNCHANGED <<kbvars, chunksJson, modelFile, globals, ret, batchvars>>

\* if not chunks_path.exists(): return False / if len(chunks) == 0: return False
BuildSearchEngineRefused ==
    /\ ~chunksJson.exists \/ Len(chunksJson.chunks) = 0
    /\ UNCHANGED vars

\* The model file is put in place.
InstallModel ==
    /\ ~modelFile
    /\ modelFile' = TRUE
    /\ UNCHANGED <<kbvars, chunksJson, faissFile, pklFile, globals, ret, batchvars>>

\* ------------------------------------------------------------------------
\* core.py is called by one caller at a time (chat.py, batch.py): a call is
\* made when the caller holds no pending result, and the caller takes the
\* returned value before it calls again.
Idle == ret.op = "none"

Return ==
    /\ ~Idle
    /\ ret' = NoCall
    /\ UNCHANGED <<kbvars, chunksJson, files, globals, batchvars>>

\* ------------------------------------------------------------------------
\* core.py: initialize
check_requirements == faissFile.exists /\ pklFile.exists /\ modelFile

\* initialize() without its first test: the handles are loaded again on
\* every call.
InitializeOn_reload(g, llmOk) ==
    IF ~check_requirements THEN [ok |-> FALSE, g |-> g]
    ELSE IF ~faissFile.ok THEN [ok |-> FALSE, g |-> g]
    ELSE LET g1 == [g EXCEPT !.index = [loaded |-> TRUE, vecs |-> faissFile.vecs]] IN
         IF ~pklFile.ok THEN [ok |-> FALSE, g |-> g1]
         ELSE LET g2 == [g1 EXCEPT !.bm25 = pklFile.bm25, !.chunks = pklFile.chunks,
                                   !.embedder = pklFile.embedder] IN
              IF ~llmOk THEN [ok |-> FALSE, g |-> g2]
              ELSE [ok |-> TRUE, g |-> [g2 EXCEPT !.llm = "Llama"]]

\* initialize() with the language model loaded first, before the indices.
InitializeOn_llmFirst(g, llmOk) ==
    IF g.llm # None THEN [ok |-> TRUE, g |-> g]
    ELSE IF ~check_requirements THEN [ok |-> FALSE, g |-> g]
    ELSE IF ~llmOk THEN [ok |-> FALSE, g |-> g]
    ELSE LET g0 == [g EXCEPT !.llm = "Llama"] IN
         IF ~faissFile.ok THEN [ok |-> FALSE, g |-> g0]
         ELSE LET g1 == [g0 EXCEPT !.index = [loaded |-> TRUE, vecs |-> faissFile.vecs]] IN
              IF ~pklFile.ok THEN [ok |-> FALSE, g |-> g1]
              ELSE [ok |-> TRUE,
                    g |-> [g1 EXCEPT !.bm25 = pklFile.bm25, !.chunks = pklFile.chunks,
                                     !.embedder = pklFile.embedder]]

\* initialize() on globals g; llmOk: whether Llama(...) loads.  Gives the
\* returned value and the globals it leaves.
InitializeOn(g, llmOk) ==
    IF g.llm # None THEN [ok |-> TRUE, g |-> g]
    ELSE IF ~check_requirements THEN [ok |-> FALSE, g |-> g]
    ELSE IF ~faissFile.ok THEN [ok |-> FALSE, g |-> g]
    ELSE LET g1 == [g EXCEPT !.index = [loaded |-> TRUE, vecs |-> faissFile.vecs]] IN
         IF ~pklFile.ok THEN [ok |-> FALSE, g |-> g1]
         ELSE LET g2 == [g1 EXCEPT !.bm25 = pklFile.bm25, !.chunks = pklFile.chunks,
                                   !.embedder = pklFile.embedder] IN
              IF ~llmOk THEN [ok |-> FALSE, g |-> g2]
              ELSE [ok |-> TRUE, g |-> [g2 EXCEPT !.llm = "Llama"]]

Initialize(llmOk) ==
    LET r == InitializeOn(Globals, llmOk) IN
        /\ Idle
        /\ SetGlobals(r.g)
        /\ ret' = [op |-> "initialize", ready |-> r.ok, top_k |-> 0, query |-> NoQuery,
                   outcome |-> "returned", context |-> <<>>]
        /\ UNCHANGED <<kbvars, chunksJson, files, batchvars>>

\* ------------------------------------------------------------------------
\* core.py: retrieve_context
MaxChunks == 3
MaxTopK == 3
MaxScore == 1

\* The orders in which a nearest-neighbour search can rank n vectors:
\* the permutations of the positions 0 .. n-1.
Orders(n) == {o \in [1 .. n -> 0 .. (n - 1)] : \A a, b \in 1 .. n : o[a] = o[b] => a = b}

\* index.search(q, k): the k nearest positions, best first, padded with -1
\* when the index holds fewer than k vectors.
FaissSearch(order, k) ==
    [j \in 1 .. k |-> IF j <= Len(order) THEN order[j] ELSE -1]

\* cs[i] as Python indexes a list: a negative i counts from the end.
IndexErr(cs, i) == i >= Len(cs) \/ i < -Len(cs)
PyIndex(cs, i) == IF i >= 0 THEN cs[i + 1] ELSE cs[Len(cs) + i + 1]

\* [chunks[i] for i in semantic_indices[0] if i < len(chunks)]
SemanticKept(cs, idx) == SelectSeq(idx, LAMBDA i : i < Len(cs))
SemanticCandidates(cs, idx) ==
    LET kept == SemanticKept(cs, idx) IN [k \in 1 .. Len(kept) |-> PyIndex(cs, kept[k])]

\* sorted(range(n), key=lambda i: scores[i], reverse=True): descending score,
\* equal scores in increasing position (the sort is stable).  scores is 1-based
\* here: scores[i + 1] is the score of position i.
Before(scores, a, b) ==
    scores[a + 1] > scores[b + 1] \/ (scores[a + 1] = scores[b + 1] /\ a < b)

SortedByScore(scores, n) ==
    [r \in 1 .. n |->
        CHOOSE a \in 0 .. (n - 1) :
            Cardinality({b \in 0 .. (n - 1) : Before(scores, b, a)}) = r - 1]

Take(q, k) == SubSeq(q, 1, Min(k, Len(q)))

\* sorted(...)[:top_k * 3]; [chunks[i] for i in bm25_indices]
Bm25Candidates(cs, scores, top_k) ==
    LET bm25_indices == Take(SortedByScore(scores, Len(cs)), top_k * 3)
    IN  [k \in 1 .. Len(bm25_indices) |-> PyIndex(cs, bm25_indices[k])]

\* mutant: a candidate already accepted is accepted again
Accepts_noSeen(seen, context, candidate, top_k) == Len(context) < top_k

\* if candidate["chunk_id"] not in seen and len(context) < top_k
Accepts(seen, context, candidate, top_k) ==
    candidate.chunk_id \notin seen /\ Len(context) < top_k

\* for candidate in semantic_candidates + bm25_candidates: ...
RECURSIVE FuseLoop(_, _, _, _, _)
FuseLoop(cands, k, seen, context, top_k) ==
    IF k > Len(cands) THEN context
    ELSE IF Accepts(seen, context, cands[k], top_k)
        THEN FuseLoop(cands, k + 1, seen \cup {cands[k].chunk_id},
                      Append(context, cands[k]), top_k)
        ELSE FuseLoop(cands, k + 1, seen, context, top_k)

\* mutant: the keyword candidates are walked first
Combined_sparseFirst(A, B) == B \o A

\* The order in which the two candidate lists are walked.
Combined(A, B) == A \o B

Fuse(A, B, top_k) == FuseLoop(Combined(A, B), 1, {}, <<>>, top_k)

\* The body of the try block on globals g.  q is the query as the
\* collaborators see it: the order the dense search ranks the vectors in, the
\* BM25 score of each chunk, and whether either search raises.
DenseRaises(g, q, top_k) ==
    \/ q.denseThrows
    \/ \E j \in 1 .. (3 * top_k) :
          LET i == FaissSearch(q.order, 3 * top_k)[j]
          IN  i < Len(g.chunks) /\ IndexErr(g.chunks, i)

SparseRaises(g, q) ==
    \/ q.sparseThrows
    \/ Len(q.scores) < Len(g.chunks)

\* mutant: a search that raises contributes no candidates and the other
\* search's candidates are returned
TryBody_partial(g, q, top_k) ==
    [exc |-> FALSE,
     value |-> Fuse(IF DenseRaises(g, q, top_k) THEN <<>>
                    ELSE SemanticCandidates(g.chunks, FaissSearch(q.order, 3 * top_k)),
                    IF SparseRaises(g, q) THEN <<>>
                    ELSE Bm25Candidates(g.chunks, q.scores, top_k), top_k)]

TryBody(g, q, top_k) ==
    IF DenseRaises(g, q, top_k) \/ SparseRaises(g, q) THEN [exc |-> TRUE, value |-> <<>>]
    ELSE [exc |-> FALSE,
          value |-> Fuse(SemanticCandidates(g.chunks, FaissSearch(q.order, 3 * top_k)),
                         Bm25Candidates(g.chunks, q.scores, top_k), top_k)]

\* mutant: the exception is not caught
TryExcept_noCatch(body) ==
    IF body.exc THEN [outcome |-> "raised", context |-> <<>>]
    ELSE [outcome |-> "returned", context |-> body.value]

\* try: ... return context / except Exception: return []
TryExcept(body) ==
    IF body.exc THEN [outcome |-> "returned", context |-> <<>>]
    ELSE [outcome |-> "returned", context |-> body.value]

\* What a query can be for globals g.
Queries(g) ==
    LET nvec == Len(g.index.vecs)
        ndoc == Len(g.bm25.corpus)
    IN  [order : Orders(nvec), scores : [1 .. ndoc -> 0 .. MaxScore],
         denseThrows : BOOLEAN, sparseThrows : BOOLEAN]

\* The queries a call can meet: none is looked at when initialize fails.
QueriesNow(llmOk) ==
    LET r == InitializeOn(Globals, llmOk) IN IF r.ok THEN Queries(r.g) ELSE {NoQuery}

RetrieveContext(top_k, llmOk, q) ==
    LET r == InitializeOn(Globals, llmOk) IN
        /\ SetGlobals(r.g)
        /\ IF ~r.ok
             THEN ret' = [op |-> "retrieve_context", ready |-> FALSE, top_k |-> top_k,
                          query |-> NoQuery, outcome |-> "returned", context |-> <<>>]
             ELSE LET out == TryExcept(TryBody(r.g, q, top_k)) IN
                    ret' = [op |-> "retrieve_context", ready |-> TRUE, top_k |-> top_k,
                            query |-> q, outcome |-> out.outcome, context |-> out.context]
        /\ UNCHANGED <<kbvars, chunksJson, files, batchvars>>

\* A new process starts: the module globals are those of a fresh import.
Restart ==
    /\ ~GlobalsAre(NoGlobals)
    /\ SetGlobals(NoGlobals)
    /\ ret' = NoCall
    /\ UNCHANGED <<kbvars, chunksJson, files, batchvars>>

\* ------------------------------------------------------------------------
\* The pipeline: the knowledge base is rebuilt from input files of up to
\* MaxInputDocs documents, the search indices are rebuilt, processes start, load
\* the indices and answer queries.
MaxInputDocs == 2

InputFiles == {[k \in 1 .. n |-> OneChunkDoc] : n \in 0 .. MaxInputDocs}

Init ==
    /\ lines = <<>>
    /\ pos = 1
    /\ kb_chunks = <<>>
    /\ total_papers = 0
    /\ skipped = 0
    /\ kb_pc = "done"
    /\ runs = MaxRuns
    /\ chunksJson = NoFile
    /\ faissFile = NoFaiss
    /\ pklFile = NoPkl
    /\ modelFile = FALSE
    /\ GlobalsAre(NoGlobals)
    /\ ret = NoCall
    /\ BatchIdle

\* The queries of the pipeline specification: the dense search ranks the
\* vectors in position order and every chunk has the same BM25 score.
PlainQuery(g, dt, st) ==
    [order |-> [j \in 1 .. Len(g.index.vecs) |-> j - 1],
     scores |-> [j \in 1 .. Len(g.bm25.corpus) |-> 0],
     denseThrows |-> dt, sparseThrows |-> st]

\* chat(): retrieve_context(message, top_k=5), here with top_k = MaxTopK
RetrievePlain ==
    /\ Idle
    /\ \E llmOk, dt, st \in BOOLEAN :
          LET r == InitializeOn(Globals, llmOk) IN
          RetrieveContext(MaxTopK, llmOk, IF r.ok THEN PlainQuery(r.g, dt, st) ELSE NoQuery)

\* ------------------------------------------------------------------------
\* core.py: generate_response, chat
MaxTextLen == 2

\* retrieve_context(query, top_k=5), and the top_k chat() passes
DefaultTopK == 5

\* A text is a sequence of pieces; the fixed messages are single pieces.
MsgNotInitialized == <<"Error: System not initialized.">>
MsgNoAnswer == <<"I couldn't generate a response. Please try rephrasing your question.">>
MsgGenerateError == <<"Error generating response: ", "e">>
MsgChatNotInitialized == <<"Error: Failed to initialize the system. Please check the setup.">>

\* The characters of a generated text: the blank and a visible one.
Whitespace == {" "}
Chars == Whitespace \cup {"x"}

\* What the call llm(prompt, ...) can do: raise, or give a text.
Texts == UNION {[1 .. n -> Chars] : n \in 0 .. MaxTextLen}
LlmOutcomes == {[throws |-> TRUE, text |-> <<>>]} \cup [throws : {FALSE}, text : Texts]

\* str.strip(): the text without its leading and trailing whitespace
RECURSIVE LStrip(_)
LStrip(t) == IF t # <<>> /\ Head(t) \in Whitespace THEN LStrip(Tail(t)) ELSE t

RECURSIVE RStrip(_)
RStrip(t) ==
    IF t # <<>> /\ t[Len(t)] \in Whitespace THEN RStrip(SubSeq(t, 1, Len(t) - 1)) ELSE t

Strip(t) == RStrip(LStrip(t))

\* The context a caller can pass: None, or a list of chunks.
NoContext == [given |-> FALSE, chunks |-> <<>>]
GivenContext(cs) == [given |-> TRUE, chunks |-> cs]

\* retrieve_context(query, top_k) on globals g, called from inside the module.
RetrieveOn(g, llmOk, dt, st, top_k) ==
    LET r == InitializeOn(g, llmOk) IN
    IF ~r.ok THEN [g |-> r.g, ready |-> FALSE, context |-> <<>>]
    ELSE [g |-> r.g, ready |-> TRUE,
          context |-> TryExcept(TryBody(r.g, PlainQuery(r.g, dt, st), top_k)).context]

\* The body of the try of generate_response, with the fallback answer left
\* out: the stripped text is returned as it is.
Complete_noFallback(out) ==
    IF out.throws THEN [exc |-> TRUE, value |-> <<>>]
    ELSE [exc |-> FALSE, value |-> Strip(out.text)]

\* The body of the try of generate_response: the call of the language model,
\* result = response["choices"][0]["text"].strip(), return result if result
\* else the fallback answer.
Complete(out) ==
    IF out.throws THEN [exc |-> TRUE, value |-> <<>>]
    ELSE LET result == Strip(out.text) IN
         [exc |-> FALSE, value |-> IF result # <<>> THEN result ELSE MsgNoAnswer]

\* try: ... / except Exception as e: return f"Error generating response: {e}"
GenerateExcept(body) ==
    IF body.exc THEN [outcome |-> "returned", answer |-> MsgGenerateError]
    ELSE [outcome |-> "returned", answer |-> body.value]

\* generate_response(query, context) on globals g.  The context block of the
\* prompt is built from the chunk_id, title, year and text of each chunk, all
\* of which every chunk of the knowledge base has.
GenerateOn(g, llmOk, ctx, dt, st, out) ==
    LET r == InitializeOn(g, llmOk) IN
    IF ~r.ok
      THEN [g |-> r.g, ready |-> FALSE, outcome |-> "returned", context |-> <<>>,
            answer |-> MsgNotInitialized]
      ELSE LET rc == IF ctx.given THEN [g |-> r.g, ready |-> TRUE, context |-> ctx.chunks]
                     ELSE RetrieveOn(r.g, llmOk, dt, st, DefaultTopK)
               res == GenerateExcept(Complete(out))
           IN  [g |-> rc.g, ready |-> TRUE, outcome |-> res.outcome,
                context |-> rc.context, answer |-> res.answer]

\* chat(message) on globals g
ChatOn(g, llmOk, dt, st, out) ==
    LET r == InitializeOn(g, llmOk) IN
    IF ~r.ok
      THEN [g |-> r.g, ready |-> FALSE, outcome |-> "returned", context |-> <<>>,
            answer |-> MsgChatNotInitialized]
      ELSE LET rc == RetrieveOn(r.g, llmOk, dt, st, DefaultTopK)
           IN  GenerateOn(rc.g, llmOk, GivenContext(rc.context), dt, st, out)

\* The contexts a caller passes to generate_response: None, an empty list, or
\* the first chunks of the knowledge base.
Contexts(g) == {NoContext} \cup {GivenContext(Take(g.chunks, n)) : n \in 0 .. 1}

GenerateResponse ==
    /\ Idle
    /\ \E llmOk \in BOOLEAN, out \in LlmOutcomes :
          \E ctx \in Contexts(InitializeOn(Globals, llmOk).g) :
          \E dt, st \in (IF ctx.given THEN {FALSE} ELSE BOOLEAN) :
             LET res == GenerateOn(Globals, llmOk, ctx, dt, st, out) IN
                /\ SetGlobals(res.g)
                /\ ret' = [op |-> "generate_response", ready |-> res.ready, top_k |-> 0,
                           query |-> NoQuery, outcome |-> res.outcome,
                           context |-> res.context, given |-> ctx.given,
                           llmOk |-> llmOk, llmOut |-> out,
                           answer |-> res.answer]
    /\ UNCHANGED <<kbvars, chunksJson, files, batchvars>>

Chat ==
    /\ Idle
    /\ \E llmOk, dt, st \in BOOLEAN, out \in LlmOutcomes :
          LET res == ChatOn(Globals, llmOk, dt, st, out) IN
             /\ SetGlobals(res.g)
             /\ ret' = [op |-> "chat", ready |-> res.ready, top_k |-> DefaultTopK,
                        query |-> NoQuery, outcome |-> res.outcome,
                        context |-> res.context, llmOk |-> llmOk,
                        answer |-> res.answer]
    /\ UNCHANGED <<kbvars, chunksJson, files, batchvars>>

Next ==
    \/ \E c \in InputFiles : BuildKnowledgeBase(c)
    \/ \E f \in FailPoints : BuildSearchEngine(f)
    \/ BuildSearchEngineRefused
    \/ InstallModel
    \/ \E llmOk \in BOOLEAN : Initialize(llmOk)
    \/ RetrievePlain
    \/ GenerateResponse
    \/ Chat
    \/ Return
    \/ Restart

Spec == Init /\ [][Next]_vars

\* ------------------------------------------------------------------------
\* Retrieval: the index files are in place, written from a collection of n1
\* chunks (faiss.index) and of n2 chunks (search.pkl); n1 # n2 is what a run of
\* build_search_engine that stops between its two writes leaves behind.
Collection(n) == RunBuild([k \in 1 .. n |-> OneChunkDoc])

InitRetr ==
    /\ lines = <<>>
    /\ pos = 1
    /\ kb_chunks = <<>>
    /\ total_papers = 0
    /\ skipped = 0
    /\ kb_pc = "done"
    /\ runs = MaxRuns
    /\ \E n1, n2 \in 1 .. MaxChunks :
          /\ chunksJson = [exists |-> TRUE, chunks |-> Collection(n1)]
          /\ faissFile = FaissWritten(Collection(n1))
          /\ pklFile = PklWritten(Collection(n2))
    /\ modelFile = TRUE
    /\ GlobalsAre(NoGlobals)
    /\ ret = NoCall
    /\ BatchIdle

\* A caller asks for the context of any query, with any top_k.
RetrieveAny ==
    /\ Idle
    /\ \E top_k \in 0 .. MaxTopK, llmOk \in BOOLEAN :
          \E q \in QueriesNow(llmOk) : RetrieveContext(top_k, llmOk, q)

NextRetr ==
    \/ \E llmOk \in BOOLEAN : Initialize(llmOk)
    \/ RetrieveAny
    \/ Return
    \/ Restart

SpecRetr == InitRetr /\ [][NextRetr]_vars

\* ------------------------------------------------------------------------
\* batch.py: analyze_scam_batch
MaxRows == 2

\* A cell of the scam_messages column: NaN, or a text.
NaN == [nan |-> TRUE, text |-> <<>>]
Messages == {NaN} \cup [nan : {FALSE}, text : {<<>>, <<" ">>, <<"x">>}]

\* pd.isna(message) or str(message).strip() == ''
EmptyMessage(message) == message.nan \/ Strip(message.text) = <<>>

MsgSkipped == <<"[SKIPPED: Empty message]">>
MsgRowError == <<"[ERROR: ", "e", "]">>

\* pd.read_csv(input_file) of a sheet without an ai_responses column, then
\* df['ai_responses'] = ''
ReadCsv(messages) ==
    [k \in 1 .. Len(messages) |-> [scam_messages |-> messages[k], ai_responses |-> <<>>]]

\* The sheets a batch can be given.
Sheets == UNION {[1 .. n -> Messages] : n \in 0 .. MaxRows}

\* df.loc[idx, 'ai_responses'] = value (idx is 0-based)
SetResponse(frame, i, value) == [frame EXCEPT ![i + 1].ai_responses = value]

\* df.to_csv(output_file, index=False)
ToCsv(frame) == [exists |-> TRUE, rows |-> frame]

\* analyze_scam_batch up to the loop: initialize(), read_csv, the column
\* test.  readOk: whether the sheet is read and has a scam_messages column.
StartBatch(llmOk, readOk, messages) ==
    /\ batch_pc = "idle"
    /\ LET r == InitializeOn(Globals, llmOk) IN
          /\ SetGlobals(r.g)
          /\ IF r.ok /\ readOk
               THEN /\ df' = ReadCsv(messages)
                    /\ batch_idx' = 0
                    /\ batch_pc' = "loop"
               ELSE /\ batch_pc' = "done"
                    /\ UNCHANGED <<df, batch_idx>>
    /\ UNCHANGED <<kbvars, chunksJson, files, ret, outCsv>>

\* One row of the loop on globals g and data frame `frame`.  save1, save2:
\* whether the to_csv of the try and that of the except succeed; a to_csv
\* that raises leaves the file as it was.  Gives the globals, the frame,
\* whether the frame was written to the file and whether an exception left
\* the function.
RowOf(g, frame, i, llmOk, dt, st, out, save1, save2) ==
    IF EmptyMessage(frame[i + 1].scam_messages)
      THEN [g |-> g, df |-> SetResponse(frame, i, MsgSkipped), crashed |-> FALSE,
            written |-> FALSE]
      ELSE LET rc == RetrieveOn(g, llmOk, dt, st, DefaultTopK)
               gen == GenerateOn(rc.g, llmOk, GivenContext(rc.context), dt, st, out)
               analysed == SetResponse(frame, i, gen.answer)
               failed == SetResponse(frame, i, MsgRowError)
           IN  IF save1 THEN [g |-> gen.g, df |-> analysed, crashed |-> FALSE, written |-> TRUE]
               ELSE IF save2 THEN [g |-> gen.g, df |-> failed, crashed |-> FALSE, written |-> TRUE]
               ELSE [g |-> gen.g, df |-> failed, crashed |-> TRUE, written |-> FALSE]

\* for idx in range(len(df)): one iteration
BatchRow ==
    /\ batch_pc = "loop"
    /\ batch_idx < Len(df)
    /\ \E llmOk, dt, st, save1, save2 \in BOOLEAN, out \in LlmOutcomes :
          LET row == RowOf(Globals, df, batch_idx, llmOk, dt, st, out, save1, save2) IN
             /\ SetGlobals(row.g)
             /\ df' = row.df
             /\ outCsv' = (IF row.written THEN ToCsv(row.df) ELSE outCsv)
             /\ IF row.crashed
                  THEN batch_pc' = "crashed" /\ UNCHANGED batch_idx
                  ELSE batch_pc' = "loop" /\ batch_idx' = batch_idx + 1
    /\ UNCHANGED <<kbvars, chunksJson, files, ret>>

\* The loop is over: the summary is printed; nothing is written.
BatchSummary ==
    /\ batch_pc = "loop"
    /\ batch_idx = Len(df)
    /\ batch_pc' = "done"
    /\ UNCHANGED <<kbvars, chunksJson, files, globals, ret, df, batch_idx, outCsv>>

\* The batch starts in a fresh process, with the indices of one chunk in
\* place and the model file installed or not.
InitBatch ==
    /\ lines = <<>>
    /\ pos = 1
    /\ kb_chunks = <<>>
    /\ total_papers = 0
    /\ skipped = 0
    /\ kb_pc = "done"
    /\ runs = MaxRuns
    /\ chunksJson = [exists |-> TRUE, chunks |-> Collection(1)]
    /\ faissFile = FaissWritten(Collection(1))
    /\ pklFile = PklWritten(Collection(1))
    /\ modelFile \in BOOLEAN
    /\ GlobalsAre(NoGlobals)
    /\ ret = NoCall
    /\ BatchIdle

NextBatch ==
    \/ \E llmOk, readOk \in BOOLEAN, messages \in Sheets : StartBatch(llmOk, readOk, messages)
    \/ BatchRow
    \/ BatchSummary

SpecBatch == InitBatch /\ [][NextBatch]_vars

\* ------------------------------------------------------------------------
\* Properties of initialization (Spec)

\* A call of core.py is made in this step.
CallMade == ret.op = "none" /\ ret'.op # "none"
\* A new process starts in this step.
ProcessStarts == ret' = NoCall /\ globals' = <<None, NoIndex, NoBm25, <<>>, None>>

\* C11: once initialize has succeeded (llm is set), every later call of
\* initialize, retrieve_context, generate_response or chat in the process
\* reports an initialized system and leaves llm, index, bm25, chunks and
\* embedder as they are; and within a process the handles change only in a
\* call made while llm is None, to what initialize() leaves.
C11_InitializeIdempotent ==
    /\ [][(llm # None /\ CallMade) => (ret'.ready /\ globals' = globals)]_vars
    /\ [][(globals' # globals /\ ~ProcessStarts) =>
            /\ llm = None
            /\ CallMade
            /\ \E llmOk \in BOOLEAN :
                  /\ check_requirements /\ faissFile.ok
                  /\ index' = [loaded |-> TRUE, vecs |-> faissFile.vecs]
                  /\ IF pklFile.ok
                       THEN /\ <<bm25', chunks', embedder'>> =
                                 <<pklFile.bm25, pklFile.chunks, pklFile.embedder>>
                            /\ llm' = (IF llmOk THEN "Llama" ELSE None)
                       ELSE UNCHANGED <<bm25, chunks, embedder, llm>>]_vars

\* A chat call whose language model could not have been loaded again
\* reported an initialized system: it ran in a process initialized before.
C11_Witness ==
    /\ ret.op = "chat" /\ ret.ready /\ ~ret.llmOk
    /\ llm # None

\* Every handle a query uses is loaded.
HandlesLoaded ==
    /\ index.loaded /\ bm25.loaded
    /\ chunks # <<>> /\ embedder # None
    /\ Len(bm25.corpus) = Len(chunks)

\* C15: whatever calls of initialize have been made and wherever they failed,
\* llm is set only if the dense index, the BM25 index, the chunk list and the
\* embedder are loaded; and a call that went past its initialize() test, and
\* so ran its query, ran it with all of them loaded.
C15_LlmSetOnlyWhenLoaded ==
    /\ llm # None => HandlesLoaded
    /\ (ret.op # "none" /\ ret.ready) => (llm # None /\ HandlesLoaded)

\* A query ran in an initialized process while search.pkl on disk is torn by
\* a failed rebuild.
C15_Witness ==
    /\ ret.op = "retrieve_context" /\ ret.ready
    /\ llm # None /\ HandlesLoaded
    /\ pklFile.exists /\ ~pklFile.ok

\* ------------------------------------------------------------------------
\* Properties of generate_response (Spec)

Generated == ret.op = "generate_response"
Blank(t) == \A k \in 1 .. Len(t) : t[k] \in Whitespace

\* r is t without its leading and trailing whitespace, for a t that is not
\* blank: r runs from the first to the last visible character of t.
Trimmed(t, r) ==
    \E i, j \in 1 .. Len(t) :
        /\ r = SubSeq(t, i, j)
        /\ t[i] \notin Whitespace /\ t[j] \notin Whitespace
        /\ \A k \in 1 .. Len(t) : (k < i \/ k > j) => t[k] \in Whitespace

\* C12: generate_response always returns, and never an empty answer: the
\* fixed not-initialized message when initialization fails; an error text when
\* the language model raises; the fixed fallback answer when the generated
\* text is empty or blank; otherwise the generated text without its leading
\* and trailing whitespace.
C12_AlwaysAnAnswer ==
    Generated =>
        /\ ret.outcome = "returned"
        /\ ret.answer # <<>>
        /\ ~ret.ready => ret.answer = MsgNotInitialized
        /\ (ret.ready /\ ret.llmOut.throws) =>
              ret.answer[1] = "Error generating response: "
        /\ (ret.ready /\ ~ret.llmOut.throws /\ Blank(ret.llmOut.text)) =>
              ret.answer = <<"I couldn't generate a response. Please try rephrasing your question.">>
        /\ (ret.ready /\ ~ret.llmOut.throws /\ ~Blank(ret.llmOut.text)) =>
              Trimmed(ret.llmOut.text, ret.answer)

\* The language model gave a blank text and the caller got the fallback answer.
C12_Witness ==
    /\ Generated /\ ret.ready
    /\ ~ret.llmOut.throws
    /\ ret.llmOut.text = <<" ", " ">>
    /\ ret.answer = MsgNoAnswer

\* ------------------------------------------------------------------------
\* Properties of the chunker (SpecBuild)

Processed == 1 .. (pos - 1)
LongDoc(d) == lines[d].kind = "ok" /\ lines[d].chars >= 500
ShortDoc(d) == lines[d].kind = "ok" /\ lines[d].chars < 500
ChunksOf(d) == SelectSeq(kb_chunks, LAMBDA c : c.line = d)

\* The window starts the claim names: i = 0, 200, 400, ... < n whose window
\* words[i : i+250] holds more than 80 words.
KeptStarts(n) ==
    {i \in 0 .. (n - 1) : i % 200 = 0 /\ (IF i + 250 < n THEN 250 ELSE n - i) > 80}

\* C6: for every processed document of at least 500 characters and n words,
\* the chunks emitted for it are exactly the windows words[i : i+250],
\* i = 0, 200, 400, ... < n, of more than 80 words, in increasing order of i;
\* consecutive chunks of the document overlap by exactly 50 words; a 300-word
\* document yields exactly words[0:250] and words[200:300].
C6_WindowsExact ==
    \A d \in Processed : LongDoc(d) =>
        LET cs == ChunksOf(d)
            n == lines[d].n
        IN  /\ {cs[k].lo : k \in 1 .. Len(cs)} = KeptStarts(n)
            /\ Len(cs) = Cardinality(KeptStarts(n))
            /\ \A k \in 1 .. Len(cs) :
                  cs[k].hi = (IF cs[k].lo + 250 < n THEN cs[k].lo + 250 ELSE n)
            /\ \A k \in 1 .. (Len(cs) - 1) :
                  /\ cs[k].lo < cs[k + 1].lo
                  /\ cs[k].hi - cs[k + 1].lo = 50
            /\ (n = 300 =>
                  /\ Len(cs) = 2
                  /\ <<cs[1].lo, cs[1].hi>> = <<0, 250>>
                  /\ <<cs[2].lo, cs[2].hi>> = <<200, 300>>)

\* A 300-word document of 600 characters has been chunked into two chunks.
C6_Witness ==
    \E d \in Processed :
        /\ LongDoc(d) /\ lines[d].n = 300 /\ lines[d].chars = 600
        /\ Len(ChunksOf(d)) = 2

\* The word positions of document d that lie in some emitted chunk.
Covered(d) ==
    UNION {kb_chunks[k].lo .. (kb_chunks[k].hi - 1) :
             k \in {j \in 1 .. Len(kb_chunks) : kb_chunks[j].line = d}}

\* C7 (as claimed): every word position 0..n-1 of a processed document above
\* the length threshold lies inside at least one emitted chunk.
C7_FullCoverage ==
    \A d \in Processed : LongDoc(d) => Covered(d) = 0 .. (lines[d].n - 1)

\* C7 (amended): the chunks emitted for a document above the length threshold
\* cover a gap-free prefix 0..m-1 of its word positions; words are left
\* uncovered only at the tail, where a trailing window of at most 80 words was
\* dropped: at most 30 words when a chunk was emitted, and the whole document
\* (then at most 80 words) when none was.
C7_PrefixCoverage ==
    \A d \in Processed : LongDoc(d) =>
        LET n == lines[d].n
            m == Cardinality(Covered(d))
        IN  /\ Covered(d) = 0 .. (m - 1)
            /\ m <= n
            /\ (m > 0 => n - m <= 30)
            /\ (m = 0 => n <= 80)

\* A 260-word document above the threshold whose last 10 words are in no chunk.
C7_Witness ==
    \E d \in Processed :
        /\ LongDoc(d) /\ lines[d].n = 260
        /\ Covered(d) = 0 .. 249

\* C8: processing a document whose text is shorter than 500 characters adds
\* exactly 1 to the skip counter and leaves the chunk collection unchanged.
C8_ShortSkipped ==
    [][(kb_pc = "loop" /\ pos' = pos + 1 /\ ShortDoc(pos))
          => (skipped' = skipped + 1 /\ kb_chunks' = kb_chunks)]_vars

\* A 400-character document of more than 80 words has been skipped after a
\* document that produced a chunk.
C8_Witness ==
    \E d \in Processed :
        /\ ShortDoc(d) /\ lines[d].chars = 400 /\ lines[d].n > 80
        /\ ChunksOf(d) = <<>>
        /\ skipped >= 1
        /\ Len(kb_chunks) > 0

\* C9: at every point of a build the chunk at position i has chunk_id i (so
\* the ids are unique and strictly increasing), chunks are in
\* document-then-window order, and a second build over the same input writes
\* the same chunk collection.
C9_IdsArePositions ==
    /\ [](\A k \in 1 .. Len(kb_chunks) :
            /\ kb_chunks[k].chunk_id = k - 1
            /\ \A j \in 1 .. (k - 1) :
                  \/ kb_chunks[j].line < kb_chunks[k].line
                  \/ /\ kb_chunks[j].line = kb_chunks[k].line
                     /\ kb_chunks[j].lo < kb_chunks[k].lo)
    /\ [][(kb_pc = "loop" /\ kb_pc' = "done" /\ chunksJson.exists)
            => chunksJson' = chunksJson]_vars

\* A second build has finished over a corpus whose two documents gave chunks,
\* with a malformed record between them.
C9_Witness ==
    /\ runs = 2
    /\ Len(lines) = 3
    /\ lines[2].kind = "json_error"
    /\ Len(kb_chunks) >= 3
    /\ ChunksOf(1) # <<>> /\ ChunksOf(3) # <<>>

MalformedStep == kb_pc = "loop" /\ pos' = pos + 1 /\ lines[pos].kind = "json_error"

\* C10 (as claimed): a record that fails to parse is skipped and counted in the
\* reported counters, contributes no chunk, and the batch continues.
C10_MalformedCounted ==
    [][MalformedStep =>
          /\ (skipped' = skipped + 1 \/ total_papers' = total_papers + 1)
          /\ kb_chunks' = kb_chunks
          /\ kb_pc' = "loop"]_vars

\* C10 (amended): a record that fails to parse as JSON is skipped silently: it
\* contributes no chunk, neither the total nor the skip counter changes, and
\* the loop goes on to the next record.
C10_MalformedSilent ==
    [][MalformedStep =>
          /\ skipped' = skipped /\ total_papers' = total_papers
          /\ kb_chunks' = kb_chunks
          /\ kb_pc' = "loop"]_vars

\* A malformed first record was passed over and a later document was chunked.
C10_Witness ==
    /\ pos > 2
    /\ lines[1].kind = "json_error"
    /\ total_papers = pos - 2
    /\ Len(kb_chunks) > 0

\* ------------------------------------------------------------------------
\* Properties of retrieve_context (SpecRetr)

Retrieved == ret.op = "retrieve_context"
\* The two candidate lists of the last call, as its searches give them.
RetA == SemanticCandidates(chunks, FaissSearch(ret.query.order, 3 * ret.top_k))
RetB == Bm25Candidates(chunks, ret.query.scores, ret.top_k)
DenseFailed == DenseRaises(Globals, ret.query, ret.top_k)
SparseFailed == SparseRaises(Globals, ret.query)
BothSucceeded == Retrieved /\ ret.ready /\ ~DenseFailed /\ ~SparseFailed

Ids(q) == [k \in 1 .. Len(q) |-> q[k].chunk_id]
Distinct(q) == \A a, b \in 1 .. Len(q) : q[a] = q[b] => a = b

\* The first top_k elements of the first-occurrence deduplication by chunk_id
\* of C, stated on positions: the kept positions are those whose chunk_id
\* occurs at no earlier position.
FirstSeen(C) == {p \in 1 .. Len(C) : \A e \in 1 .. (p - 1) : C[e].chunk_id # C[p].chunk_id}
NthOf(S, j) == CHOOSE p \in S : Cardinality({e \in S : e < p}) = j - 1
DedupTake(C, k) ==
    [j \in 1 .. (IF k < Cardinality(FirstSeen(C)) THEN k ELSE Cardinality(FirstSeen(C)))
        |-> C[NthOf(FirstSeen(C), j)]]

IdChunks(ids) == [k \in 1 .. Len(ids) |-> [chunk_id |-> ids[k]]]

\* C1: whatever the query, top_k and the candidate lists, retrieve_context
\* returns at most top_k chunks and no two of them have the same chunk_id.
C1_AtMostTopKUnique ==
    Retrieved => (Len(ret.context) <= ret.top_k /\ Distinct(Ids(ret.context)))

\* A call filled all of its top_k >= 2 slots from candidate lists that held
\* the same chunk more than once.
C1_Witness ==
    /\ BothSucceeded
    /\ ret.top_k >= 2
    /\ Len(ret.context) = ret.top_k
    /\ ~Distinct(Ids(RetA \o RetB))

\* C2: when both searches succeed the result is the first top_k elements of
\* the first-occurrence deduplication by chunk_id of A ++ B; the distinct
\* chunks of A keep their rank, a chunk that is only in B never precedes a
\* chunk of A, and A = [3,1,7], B = [1,9,3,2], top_k = 5 gives [3,1,7,9,2].
C2_PriorityUnion ==
    /\ BothSucceeded =>
        /\ ret.context = DedupTake(RetA \o RetB, ret.top_k)
        /\ \A j \in 1 .. Len(ret.context) :
              j <= Cardinality(FirstSeen(RetA)) => ret.context[j] = RetA[NthOf(FirstSeen(RetA), j)]
        /\ \A i, j \in 1 .. Len(ret.context) :
              (i < j /\ \E a \in 1 .. Len(RetA) : RetA[a] = ret.context[j])
                  => \E a \in 1 .. Len(RetA) : RetA[a] = ret.context[i]
    /\ Ids(Fuse(IdChunks(<<3, 1, 7>>), IdChunks(<<1, 9, 3, 2>>), 5)) = <<3, 1, 7, 9, 2>>

\* Both searches succeeded, the dense list held too few distinct chunks to
\* fill top_k, and a chunk that only the keyword list held was appended.
C2_Witness ==
    /\ BothSucceeded
    /\ Len(ret.context) = ret.top_k
    /\ ~Distinct(Ids(RetA \o RetB))
    /\ \E j \in 1 .. Len(ret.context) : \A a \in 1 .. Len(RetA) : RetA[a] # ret.context[j]

\* C3 (as claimed): when exactly one search raises, the result is the other
\* search's candidates, in order, deduplicated and capped at top_k.
C3_PartialResult ==
    (Retrieved /\ ret.ready) =>
        /\ (SparseFailed /\ ~DenseFailed) => ret.context = DedupTake(RetA, ret.top_k)
        /\ (DenseFailed /\ ~SparseFailed) => ret.context = DedupTake(RetB, ret.top_k)

\* C3 (amended): when an index is unavailable (initialize fails) or exactly
\* one search raises, nothing the other index produced is kept:
\* retrieve_context returns the empty list.
C3_FailureDiscards ==
    Retrieved =>
        /\ ~ret.ready => (ret.outcome = "returned" /\ ret.context = <<>>)
        /\ (ret.ready /\ (DenseFailed # SparseFailed)) =>
              (ret.outcome = "returned" /\ ret.context = <<>>)

\* The keyword search raised after the dense search had found candidates, and
\* the call returned nothing.
C3_Witness ==
    /\ Retrieved /\ ret.ready
    /\ SparseFailed /\ ~DenseFailed
    /\ ret.top_k >= 1
    /\ RetA # <<>>
    /\ ret.context = <<>>

\* C4: retrieve_context always returns; it returns the empty list when
\* initialize fails, when both searches raise, and when both searches give
\* no candidates.
C4_NeverRaises ==
    Retrieved =>
        /\ ret.outcome = "returned"
        /\ ~ret.ready => ret.context = <<>>
        /\ (ret.ready /\ DenseFailed /\ SparseFailed) => ret.context = <<>>
        /\ (BothSucceeded /\ RetA = <<>> /\ RetB = <<>>) => ret.context = <<>>

\* Both searches raised inside a call on an initialized system.
C4_Witness ==
    /\ Retrieved /\ ret.ready
    /\ DenseFailed /\ SparseFailed
    /\ ret.outcome = "returned"
    /\ ret.context = <<>>

\* The positions the dense search of the last call returned, and those of
\* them that are positions of the chunk list.
RetHits == FaissSearch(ret.query.order, 3 * ret.top_k)
ValidHits == SelectSeq(RetHits, LAMBDA i : 0 <= i /\ i < Len(chunks))

\* C14 (as claimed): in a call whose searches both succeed, the semantic
\* candidates are the chunks at the returned positions i with
\* 0 <= i < len(chunks), in the order returned, so that the placeholder -1
\* contributes none; and every returned chunk is at a position the dense
\* search returned or is one of the keyword candidates.
C14_OnlyValidPositions ==
    BothSucceeded =>
        /\ RetA = [k \in 1 .. Len(ValidHits) |-> chunks[ValidHits[k] + 1]]
        /\ \A k \in 1 .. Len(ret.context) :
              \/ \E j \in 1 .. Len(ValidHits) : ret.context[k] = chunks[ValidHits[j] + 1]
              \/ \E j \in 1 .. Len(RetB) : ret.context[k] = RetB[j]

\* ------------------------------------------------------------------------
\* Properties of the batch driver (SpecBatch)

\* C13 (as claimed): while the batch runs and when it is done, the rows before
\* batch_idx have been processed and no other: every later row still has its
\* empty ai_responses; and once a row has been processed (analysed, failed or
\* skipped as empty) the output file exists and holds the ai_responses of
\* every row processed so far.
C13_SavedAfterEveryRow ==
    batch_pc \in {"loop", "done"} =>
        /\ \A k \in (batch_idx + 1) .. Len(df) : df[k].ai_responses = <<>>
        /\ \A k \in 1 .. batch_idx : df[k].ai_responses # <<>>
        /\ batch_idx > 0 =>
              /\ outCsv.exists
              /\ \A k \in 1 .. batch_idx :
                    outCsv.rows[k].ai_responses = df[k].ai_responses

\* ------------------------------------------------------------------------
\* Properties of the pipeline (Spec)

\* C5 (as claimed): whatever runs of build_search_engine have happened, failed
\* ones included, a readable faiss.index and a readable search.pkl were
\* written from the same chunk list: there is one vector per chunk of the
\* pickled list and the vector at position i is that of chunk i.
C5_ArtifactsAligned ==
    (faissFile.exists /\ faissFile.ok /\ pklFile.exists /\ pklFile.ok) =>
        /\ Len(faissFile.vecs) = Len(pklFile.chunks)
        /\ \A k \in 1 .. Len(pklFile.chunks) :
              faissFile.vecs[k] = Encode(TextOf(pklFile.chunks[k]))

====
